---- MODULE Spec2Model ----
(***************************************************************************)
(* ElasticsearchDocumentStore (haystack/database/elasticsearch.py) as a     *)
(* state machine: the store's configuration, the search engine's indices    *)
(* (what is indexed, and what a search can already see), and the outcome    *)
(* of the last call.                                                        *)
(*                                                                          *)
(* Python values are tagged, [t |-> <type>, v |-> <value>], because the     *)
(* code branches on their types (None, list, dict):                         *)
(*   null, str, num, arr (a list), obj (a dict), script (the f-string of    *)
(*   the similarity script, kept as its two parameters).                    *)
(* Scores are integers: the engine's relevance score is abstracted to a     *)
(* count of matching clauses, and embeddings are axis unit vectors, whose   *)
(* cosine similarity is their dot product, -1, 0 or 1.                      *)
(***************************************************************************)
EXTENDS Integers, Sequences, FiniteSets, TLC

VARIABLES
    cfg,    \* the store's configuration, fixed by __init__
    es,     \* the engine: index name -> [exists, mapping, store, visible]
    ret,    \* the last call: its name, arguments, requests sent, error, result
    written \* history: index name -> id -> the Document a write had accepted

vars == <<cfg, es, ret, written>>

---------------------------------------------------------------------------
\* Bounds of the model.

MaxBatch == 3
MaxTopK == 2
MaxLabels == 2

---------------------------------------------------------------------------
\* Python values.

JNull == [t |-> "null", v |-> 0]
JStr(s) == [t |-> "str", v |-> s]
JNum(n) == [t |-> "num", v |-> n]
JArr(seq) == [t |-> "arr", v |-> seq]
JObj(f) == [t |-> "obj", v |-> f]

IsNone(x) == x.t = "null"
Truthy(x) ==
    CASE x.t = "null" -> FALSE
      [] x.t = "num" -> x.v # 0
      [] x.t = "str" -> x.v # ""
      [] x.t = "arr" -> x.v # <<>>
      [] x.t = "obj" -> DOMAIN x.v # {}
      [] OTHER -> TRUE

EmptyDict == <<>>
Range(seq) == {seq[i] : i \in DOMAIN seq}
\* {k: v} and the merge of two dicts, the right one winning
One(k, x) == [kk \in {k} |-> x]
Merge(f, g) == [k \in DOMAIN f \cup DOMAIN g |-> IF k \in DOMAIN g THEN g[k] ELSE f[k]]
Without(f, ks) == [k \in DOMAIN f \ ks |-> f[k]]
HasKey(o, k) == o.t = "obj" /\ k \in DOMAIN o.v

\* str(n) of a natural number, and the engine's reading of a number given as
\* a number or as a string of digits
Digit(d) == CASE d = 0 -> "0" [] d = 1 -> "1" [] d = 2 -> "2" [] d = 3 -> "3"
              [] d = 4 -> "4" [] d = 5 -> "5" [] d = 6 -> "6" [] d = 7 -> "7"
              [] d = 8 -> "8" [] d = 9 -> "9"
RECURSIVE PyStr(_)
PyStr(n) == IF n < 10 THEN Digit(n) ELSE PyStr(n \div 10) \o Digit(n % 10)

PyStrOf(x) == IF x.t = "num" THEN PyStr(x.v) ELSE x.v

---------------------------------------------------------------------------
\* Configuration (__init__).

IndexNames == {"document", "label", "eval_document"}
NoErr == "none"

\* The constructor's arguments that the modelled calls read. An unset field
\* name (None or "", both falsy) is "", an unset list is <<>>.
Config(text_field, name_field, embedding_field, embedding_dim, excluded) ==
    [index |-> "document",
     label_index |-> "label",
     search_fields |-> <<"text">>,
     text_field |-> text_field,
     name_field |-> name_field,
     embedding_field |-> embedding_field,
     embedding_dim |-> embedding_dim,
     custom_mapping |-> JNull,
     excluded_meta_data |-> excluded,
     faq_question_field |-> ""]

DefaultConfig == Config("text", "name", "embedding", 2, <<>>)

---------------------------------------------------------------------------
\* The engine, as the client calls of the file use it.

NoIndex == [exists |-> FALSE, mapping |-> JNull, store |-> EmptyDict, visible |-> EmptyDict]
NewIndex(mapping) == [exists |-> TRUE, mapping |-> mapping, store |-> EmptyDict, visible |-> EmptyDict]

\* indices.create: an index that exists is left alone and answered with 400
EsIndicesCreate(e, name, body) ==
    IF e[name].exists
    THEN [es |-> e, status |-> 400]
    ELSE [es |-> [e EXCEPT ![name] = NewIndex(body)], status |-> 200]

\* the client raises on a status of 400 or more that the call does not ignore
ClientError(status, ignore) ==
    IF status >= 400 /\ status \notin ignore THEN "RequestError" ELSE NoErr

\* ignore=400 of both create calls
CreateIgnoreNothing == {}
CreateIgnore == {400}

MetaKeys == {"_op_type", "_index", "_id"}

\* the id the engine gives a record created without one
AutoId(store) == "auto" \o PyStr(Cardinality(DOMAIN store) + 1)

\* One item of a bulk request against index state ix: [ix, status].
\* create is insert-only (409 when the id exists), index overwrites, update
\* merges its "doc" into the stored record (404 when the id is missing).
EsBulkItem(ix, a) ==
    LET op == a["_op_type"].v
        id == IF "_id" \in DOMAIN a THEN a["_id"].v ELSE AutoId(ix.store)
    IN  CASE op = "create" ->
                IF id \in DOMAIN ix.store
                THEN [ix |-> ix, status |-> 409]
                ELSE [ix |-> [ix EXCEPT !.store = Merge(@, One(id, Without(a, MetaKeys)))],
                      status |-> 201]
          [] op = "index" ->
                [ix |-> [ix EXCEPT !.store = Merge(@, One(id, Without(a, MetaKeys)))],
                 status |-> IF id \in DOMAIN ix.store THEN 200 ELSE 201]
          [] op = "update" ->
                IF id \notin DOMAIN ix.store
                THEN [ix |-> ix, status |-> 404]
                ELSE [ix |-> [ix EXCEPT !.store = Merge(@, One(id, Merge(@[id], a["doc"].v)))],
                      status |-> 200]

\* The items of one request, in order, each on its own: [es, statuses].
\* A write to an index that does not exist creates it (dynamic mapping).
RECURSIVE EsBulkItems(_, _, _)
EsBulkItems(e, actions, statuses) ==
    IF actions = <<>> THEN [es |-> e, statuses |-> statuses]
    ELSE LET a == Head(actions)
             name == a["_index"].v
             ix == IF e[name].exists THEN e[name] ELSE NewIndex(JObj(EmptyDict))
             r == EsBulkItem(ix, a)
         IN  EsBulkItems([e EXCEPT ![name] = r.ix], Tail(actions), Append(statuses, r.status))

\* refresh="wait_for": the request returns once a refresh has made its
\* changes searchable; without it they wait for the engine's next refresh.
EsRefresh(e, names) ==
    [n \in DOMAIN e |-> IF n \in names THEN [e[n] EXCEPT !.visible = e[n].store] ELSE e[n]]

\* a request that applies nothing unless every item succeeds
EsBulkAllOrNothing(e, actions, refresh) ==
    LET r == EsBulkItems(e, actions, <<>>)
        touched == {actions[i]["_index"].v : i \in DOMAIN actions}
        failed == \E i \in DOMAIN r.statuses : r.statuses[i] >= 400
    IN  [es |-> IF failed THEN e
                ELSE IF refresh = "wait_for" THEN EsRefresh(r.es, touched) ELSE r.es,
         statuses |-> r.statuses]

EsBulk(e, actions, refresh) ==
    LET r == EsBulkItems(e, actions, <<>>)
        touched == {actions[i]["_index"].v : i \in DOMAIN actions}
    IN  [es |-> IF refresh = "wait_for" THEN EsRefresh(r.es, touched) ELSE r.es,
         statuses |-> r.statuses]

\* helpers.bulk raises once the request is answered, if an item failed
BulkError(statuses) ==
    IF \E i \in DOMAIN statuses : statuses[i] >= 400 THEN "BulkIndexError" ELSE NoErr

---------------------------------------------------------------------------
\* Index lifecycle.

Prop(type) == JObj(One("type", JStr(type)))

DocumentMapping(c) ==
    LET props == Merge(One(c.name_field, Prop("text")), One(c.text_field, Prop("text")))
        vec == JObj([type |-> JStr("dense_vector"), dims |-> JNum(c.embedding_dim)])
        all == IF c.embedding_field # "" THEN Merge(props, One(c.embedding_field, vec)) ELSE props
    IN  JObj(One("mappings", JObj(One("properties", JObj(all)))))

LabelMapping ==
    JObj(One("mappings", JObj(One("properties", JObj(
        [question |-> Prop("text"), answer |-> Prop("text"),
         is_correct_answer |-> Prop("boolean"), is_correct_document |-> Prop("boolean"),
         origin |-> Prop("keyword"), document_id |-> Prop("keyword"),
         offset_start_in_doc |-> Prop("long"), no_answer |-> Prop("boolean"),
         model_id |-> Prop("keyword"), type |-> Prop("keyword")])))))

\* _create_document_index, _create_label_index: [es, err]
CreateDocumentIndexCall(e, c, index_name) ==
    LET mapping == IF Truthy(c.custom_mapping) THEN c.custom_mapping ELSE DocumentMapping(c)
        r == EsIndicesCreate(e, index_name, mapping)
    IN  [es |-> r.es, err |-> ClientError(r.status, CreateIgnore)]

CreateLabelIndexCall(e, index_name) ==
    LET r == EsIndicesCreate(e, index_name, LabelMapping)
    IN  [es |-> r.es, err |-> ClientError(r.status, CreateIgnore)]

\* the engine after __init__ (create_index=True)
InitEs(c) ==
    LET e0 == [n \in IndexNames |-> NoIndex]
        e1 == CreateDocumentIndexCall(e0, c, c.index).es
    IN  CreateLabelIndexCall(e1, c.label_index).es

---------------------------------------------------------------------------
\* Documents and the write pipeline.

\* haystack.database.base.Document: its attributes, and to_dict, which gives
\* them under their own names
Document(id, text, meta, tags, embedding) ==
    [id |-> JStr(id), text |-> text, meta |-> JObj(meta), tags |-> tags,
     embedding |-> embedding, question |-> JNull, query_score |-> JNull]
ToDict(doc) == doc

\* the record write_documents builds for one Document: the meta dict is
\* hoisted to the top level after the None attributes are dropped
Flatten(d) == IF "meta" \in DOMAIN d THEN Without(Merge(d, d["meta"].v), {"meta"}) ELSE d

IndexOpTypeIndex == "index"
IndexOpType == "create"

IndexAction(doc, index) ==
    LET d0 == Merge(Merge(One("_op_type", JStr(IndexOpType)), One("_index", JStr(index))), ToDict(doc))
        d1 == Merge(Without(d0, {"id"}), One("_id", JStr(PyStrOf(d0["id"]))))
        d2 == Without(d1, {"query_score"})
        d3 == [k \in {kk \in DOMAIN d2 : ~IsNone(d2[kk])} |-> d2[k]]
    IN  Flatten(d3)

DocumentsRefreshNone == "false"
DocumentsRefresh == "wait_for"

\* write_documents: [es, err, requests, statuses, index]
WriteDocumentsCall(e, c, documents, index) ==
    LET lazy == Truthy(index) /\ ~e[index.v].exists
        e1 == IF lazy THEN CreateDocumentIndexCall(e, c, index.v) ELSE [es |-> e, err |-> NoErr]
        idx == IF IsNone(index) THEN c.index ELSE index.v
        actions == [i \in DOMAIN documents |-> IndexAction(documents[i], idx)]
        r == EsBulk(e1.es, actions, DocumentsRefresh)
        reqs0 == IF Truthy(index) THEN <<"indices.exists">> ELSE <<>>
        reqs1 == IF lazy THEN Append(reqs0, "indices.create") ELSE reqs0
    IN  IF e1.err # NoErr
        THEN [es |-> e1.es, err |-> e1.err, requests |-> reqs1, statuses |-> <<>>, index |-> idx]
        ELSE [es |-> r.es, err |-> BulkError(r.statuses), requests |-> Append(reqs1, "bulk"),
              statuses |-> r.statuses, index |-> idx]


---------------------------------------------------------------------------
\* The engine's search.

DictGet(f, k) == IF k \in DOMAIN f THEN f[k] ELSE JNull
AsList(x) == IF x.t = "arr" THEN x.v ELSE IF x.t = "null" THEN <<>> ELSE <<x>>
TheKey(f) == CHOOSE k \in DOMAIN f : TRUE

RECURSIVE SumSeq(_)
SumSeq(s) == IF s = <<>> THEN 0 ELSE Head(s) + SumSeq(Tail(s))

Vec(x) == [i \in DOMAIN x.v |-> x.v[i].v]
RECURSIVE Dot(_, _)
Dot(a, b) == IF a = <<>> THEN 0 ELSE Head(a) * Head(b) + Dot(Tail(a), Tail(b))
\* of unit vectors
CosineSimilarity(a, b) == Dot(a, b)

NoMatch == 0 - 1
Failed == 0 - 2

\* A query the engine refuses to parse: a terms clause whose value is not a
\* list, or a clause of no known kind.
RECURSIVE QueryBad(_)
QueryBad(q) ==
    IF q.t # "obj" \/ Cardinality(DOMAIN q.v) # 1 THEN TRUE
    ELSE LET kind == TheKey(q.v)
             arg == q.v[kind]
         IN  CASE kind \in {"match_all", "ids", "match", "multi_match"} -> arg.t # "obj"
               [] kind = "terms" ->
                     \/ arg.t # "obj"
                     \/ \E k \in DOMAIN arg.v : arg.v[k].t # "arr"
               [] kind = "bool" ->
                     \/ arg.t # "obj"
                     \/ \E k \in DOMAIN arg.v :
                          \/ k \notin {"must", "should", "filter"}
                          \/ \E i \in DOMAIN AsList(arg.v[k]) : QueryBad(AsList(arg.v[k])[i])
               [] kind = "script_score" ->
                     \/ arg.t # "obj"
                     \/ {"query", "script"} \ DOMAIN arg.v # {}
                     \/ QueryBad(arg.v["query"])
               [] OTHER -> TRUE

\* The score of record (id, src) under a well-formed query: NoMatch, Failed
\* (the script cannot be run on it), or its score.
RECURSIVE QueryScore(_, _, _)
QueryScore(q, id, src) ==
    LET kind == TheKey(q.v)
        arg == q.v[kind].v
    IN  CASE kind = "match_all" -> 1
          [] kind = "ids" ->
                IF JStr(id) \in Range(arg["values"].v) THEN 1 ELSE NoMatch
          [] kind = "terms" ->
                IF \A k \in DOMAIN arg : k \in DOMAIN src /\ src[k] \in Range(arg[k].v)
                THEN 1 ELSE NoMatch
          [] kind = "match" ->
                IF \A k \in DOMAIN arg : k \in DOMAIN src /\ src[k] = arg[k]
                THEN 1 ELSE NoMatch
          [] kind = "multi_match" ->
                LET fields == arg["fields"].v
                    n == Cardinality({i \in DOMAIN fields :
                            fields[i].v \in DOMAIN src /\ src[fields[i].v] = arg["query"]})
                IN  IF n > 0 THEN n ELSE NoMatch
          [] kind = "bool" ->
                LET must == AsList(DictGet(arg, "must"))
                    should == AsList(DictGet(arg, "should"))
                    filter == AsList(DictGet(arg, "filter"))
                    ms == [i \in DOMAIN must |-> QueryScore(must[i], id, src)]
                    ss == [i \in DOMAIN should |-> QueryScore(should[i], id, src)]
                    fs == [i \in DOMAIN filter |-> QueryScore(filter[i], id, src)]
                    \* a should clause is required only when it stands alone
                    minimum == IF must = <<>> /\ filter = <<>> /\ should # <<>> THEN 1 ELSE 0
                    matched == {i \in DOMAIN ss : ss[i] >= 0}
                IN  IF Failed \in Range(ms) \cup Range(ss) \cup Range(fs) THEN Failed
                    ELSE IF NoMatch \in Range(ms) \cup Range(fs) THEN NoMatch
                    ELSE IF Cardinality(matched) < minimum THEN NoMatch
                    ELSE SumSeq(ms) + SumSeq([i \in DOMAIN ss |-> IF ss[i] >= 0 THEN ss[i] ELSE 0])
          [] kind = "script_score" ->
                LET base == QueryScore(arg["query"], id, src)
                    script == arg["script"].v
                    field == script["source"].v.field
                    qv == Vec(script["params"].v["query_vector"])
                IN  IF base < 0 THEN base
                    ELSE IF field \notin DOMAIN src THEN Failed
                    ELSE IF Len(Vec(src[field])) # Len(qv) THEN Failed
                    ELSE CosineSimilarity(qv, Vec(src[field])) + script["source"].v.offset

\* the size the engine reads: a number, or a string of digits
SizeRange == (0..20) \cup {2020, 2021}
ParseSize(x) ==
    CASE x.t = "num" -> x.v
      [] x.t = "str" /\ (\E n \in SizeRange : PyStr(n) = x.v) ->
            CHOOSE n \in SizeRange : PyStr(n) = x.v
      [] OTHER -> Failed

DefaultSize == 10

Hit(id, score, src) == [id |-> id, score |-> score, source |-> src]

\* the orders the engine may return a set of hits in: by falling score
Rankings(hits) ==
    LET n == Cardinality(hits)
    IN  {s \in [1..n -> hits] :
            /\ \A i, j \in 1..n : i # j => s[i] # s[j]
            /\ \A i \in 1..n, j \in 1..n : i < j => s[i].score.v >= s[j].score.v}

Min(a, b) == IF a < b THEN a ELSE b

\* search(index, body): [status, results], results the hit lists the engine
\* may answer with. It reads what the index's last refresh made searchable.
EsSearch(ix, body) ==
    LET query == IF HasKey(body, "query") THEN body.v["query"] ELSE JObj(One("match_all", JObj(EmptyDict)))
        size == IF HasKey(body, "size") THEN ParseSize(body.v["size"]) ELSE DefaultSize
        excludes == IF HasKey(body, "_source")
                    THEN {x.v : x \in Range(body.v["_source"].v["excludes"].v)} ELSE {}
        scores == [id \in DOMAIN ix.visible |-> QueryScore(query, id, ix.visible[id])]
        hits == {Hit(id, JNum(scores[id]), Without(ix.visible[id], excludes)) :
                    id \in {i \in DOMAIN ix.visible : scores[i] >= 0}}
    IN  IF ~ix.exists THEN [status |-> 404, results |-> {<<>>}]
        ELSE IF body.t # "obj" \/ DOMAIN body.v \ {"query", "size", "_source"} # {}
                \/ QueryBad(query) \/ size = Failed
             THEN [status |-> 400, results |-> {<<>>}]
        ELSE IF Failed \in Range(scores) THEN [status |-> 400, results |-> {<<>>}]
        ELSE [status |-> 200,
              results |-> {SubSeq(s, 1, Min(size, Len(s))) : s \in Rankings(hits)}]

\* count(index), and helpers.scan(query, index): every searchable record that
\* matches, in index order, unscored
EsCount(ix) == Cardinality(DOMAIN ix.visible)

\* scan is unscored and promises no order
Orders(hits) ==
    LET n == Cardinality(hits)
    IN  {s \in [1..n -> hits] : \A i, j \in 1..n : i # j => s[i] # s[j]}

EsScan(ix, body) ==
    LET query == body.v["query"]
        scores == [id \in DOMAIN ix.visible |-> QueryScore(query, id, ix.visible[id])]
        hits == {Hit(id, JNull, ix.visible[id]) : id \in {i \in DOMAIN ix.visible : scores[i] >= 0}}
    IN  IF ~ix.exists THEN [status |-> 404, results |-> {<<>>}]
        ELSE IF QueryBad(query) THEN [status |-> 400, results |-> {<<>>}]
        ELSE [status |-> 200, results |-> Orders(hits)]

\* delete_by_query(index, body): deletes the records its search finds, so
\* those the last refresh made searchable; the deletions themselves wait for
\* the next refresh to show in a search. [es, status]
EsDeleteByQuery(e, name, body) ==
    LET ix == e[name]
        query == body.v["query"]
        found == {id \in DOMAIN ix.visible \cap DOMAIN ix.store :
                    QueryScore(query, id, ix.visible[id]) >= 0}
    IN  IF ~ix.exists THEN [es |-> e, status |-> 404]
        ELSE IF QueryBad(query) THEN [es |-> e, status |-> 400]
        ELSE [es |-> [e EXCEPT ![name].store = Without(@, found)], status |-> 200]

SearchError(status) ==
    CASE status = 404 -> "NotFoundError"
      [] status >= 400 -> "RequestError"
      [] OTHER -> NoErr

---------------------------------------------------------------------------
\* Reading.

\* _convert_es_hit_to_document
ConvertHit(c, hit, score_adjustment) ==
    LET src == hit.source
        kept == DOMAIN src \ {c.text_field, c.faq_question_field, c.embedding_field, "tags"}
        meta0 == [k \in kept |-> src[k]]
        meta == Merge(Without(meta0, {c.name_field}), One("name", DictGet(meta0, c.name_field)))
    IN  [id |-> JStr(hit.id),
         text |-> DictGet(src, c.text_field),
         meta |-> JObj(meta),
         query_score |-> IF Truthy(hit.score) THEN JNum(hit.score.v + score_adjustment) ELSE JNull,
         question |-> DictGet(src, c.faq_question_field),
         tags |-> DictGet(src, "tags"),
         embedding |-> DictGet(src, c.embedding_field)]

ConvertHits(c, hits, score_adjustment) ==
    [i \in DOMAIN hits |-> ConvertHit(c, hits[i], score_adjustment)]

IdsBody(id) ==
    JObj(One("query", JObj(One("ids", JObj(One("values", JArr(<<id>>)))))))

\* get_document_by_id: the results it may return, [err, out]
GetDocumentByIdResults(e, c, id, index) ==
    LET idx == IF IsNone(index) THEN c.index ELSE index.v
        r == EsSearch(e[idx], IdsBody(id))
    IN  {[err |-> SearchError(r.status),
          out |-> IF r.status = 200 /\ hits # <<>> THEN ConvertHit(c, hits[1], 0) ELSE JNull]
            : hits \in r.results}

\* get_document_count: [err, out]
GetDocumentCountResult(e, c, index) ==
    LET idx == IF IsNone(index) THEN c.index ELSE index.v
    IN  IF e[idx].exists THEN [err |-> NoErr, out |-> EsCount(e[idx])]
        ELSE [err |-> "NotFoundError", out |-> 0]

TermsClause(key, values) == JObj(One("terms", JObj(One(key, values))))
\* the clauses in the order the dict gives its keys
KeyOrders(filters) ==
    {s \in [1..Cardinality(DOMAIN filters) -> DOMAIN filters] :
        \A i, j \in DOMAIN s : i # j => s[i] # s[j]}
FilterClause(filters, keys) == JArr([i \in DOMAIN keys |-> TermsClause(keys[i], filters[keys[i]])])

MatchAllBody == JObj(One("query", JObj(One("bool", JObj(One("must", JObj(One("match_all", JObj(EmptyDict)))))))))

\* body["query"]["bool"]["filter"] = filter_clause: a KeyError when the body
\* has no "query" or no "bool" under it
CanSetFilter(body) == HasKey(body, "query") /\ HasKey(body.v["query"], "bool")
SetFilter(body, clause) ==
    JObj([body.v EXCEPT !["query"] =
            JObj([@.v EXCEPT !["bool"] = JObj(Merge(@.v, One("filter", clause)))])])

\* get_all_documents_in_index: [status, results]
GetAllDocumentsInIndex(e, index, filters) ==
    LET keys == CHOOSE s \in KeyOrders(filters.v) : TRUE
        body == IF Truthy(filters) THEN SetFilter(MatchAllBody, FilterClause(filters.v, keys))
                ELSE MatchAllBody
    IN  EsScan(e[index], body)

\* get_all_documents: the results it may return, [err, out]
GetAllDocumentsResults(e, c, index, filters) ==
    LET idx == IF IsNone(index) THEN c.index ELSE index.v
        r == GetAllDocumentsInIndex(e, idx, filters)
    IN  {[err |-> SearchError(r.status), out |-> ConvertHits(c, hits, 0)] : hits \in r.results}

---------------------------------------------------------------------------
\* string.Template and json, over lexemes. A text is the sequence of its
\* lexemes [k, s]: punct (one of { } [ ] : ,), string (a whole string
\* literal, s its content), number (s its digits), quote (a double quote on
\* its own) and chars (other text). A template is a sequence of tokens:
\* lit (a lexeme), braced (${s}), named ($s), escape ($$) and invalid (a $
\* that starts no placeholder).

Punct(s) == [k |-> "punct", s |-> s]
StringLit(s) == [k |-> "string", s |-> s]
NumberLit(s) == [k |-> "number", s |-> s]
Chars(s) == [k |-> "chars", s |-> s]
Quote == [k |-> "quote", s |-> "\""]

Lit(lexeme) == [k |-> "lit", s |-> "", lexeme |-> lexeme]
Braced(s) == [k |-> "braced", s |-> s, lexeme |-> Quote]
Named(s) == [k |-> "named", s |-> s, lexeme |-> Quote]
Escape == [k |-> "escape", s |-> "$", lexeme |-> Chars("$")]
Invalid == [k |-> "invalid", s |-> "$", lexeme |-> Chars("$")]

\* the lexemes of a raw text: it is cut at its double quotes
TextLexemes(text) ==
    CASE text = "say \"hi\"" -> <<Chars("say "), Quote, Chars("hi"), Quote>>
      [] OTHER -> <<Chars(text)>>

RECURSIVE Concat(_)
Concat(seqs) == IF seqs = <<>> THEN <<>> ELSE Head(seqs) \o Concat(Tail(seqs))

\* json.dumps of a scalar or of a list of scalars
JsonDumpsScalar(x) ==
    CASE x.t = "num" -> <<NumberLit(PyStr(x.v))>>
      [] x.t = "str" -> <<StringLit(x.v)>>
      [] x.t = "null" -> <<Chars("null")>>
JsonDumps(x) ==
    IF x.t = "arr"
    THEN <<Punct("[")>>
         \o Concat([i \in DOMAIN x.v |->
                IF i = 1 THEN JsonDumpsScalar(x.v[i]) ELSE <<Punct(",")>> \o JsonDumpsScalar(x.v[i])])
         \o <<Punct("]")>>
    ELSE JsonDumpsScalar(x)

\* Template.substitute(**substitutions): [err, out]; the leftmost
\* placeholder that cannot be replaced decides the error
Substitute(template, substitutions) ==
    LET bad == {i \in DOMAIN template :
                    \/ template[i].k = "invalid"
                    \/ template[i].k \in {"braced", "named"} /\ template[i].s \notin DOMAIN substitutions}
        first == CHOOSE i \in bad : \A j \in bad : i <= j
        piece(tok) == IF tok.k \in {"braced", "named"} THEN substitutions[tok.s] ELSE <<tok.lexeme>>
    IN  IF bad # {}
        THEN [err |-> IF template[first].k = "invalid" THEN "ValueError" ELSE "KeyError", out |-> <<>>]
        ELSE [err |-> NoErr, out |-> Concat([i \in DOMAIN template |-> piece(template[i])])]

IsNumber(digits) == \E n \in SizeRange : PyStr(n) = digits
NumberOf(digits) == CHOOSE n \in SizeRange : PyStr(n) = digits
NoParse == [ok |-> FALSE, val |-> JNull, rest |-> <<>>]
Parsed(val, rest) == [ok |-> TRUE, val |-> val, rest |-> rest]

\* the text of a string that a quote opened, up to its closing quote
RECURSIVE ParseChars(_, _)
ParseChars(lex, acc) ==
    IF lex = <<>> THEN NoParse
    ELSE IF Head(lex).k = "quote" THEN Parsed(JStr(acc), Tail(lex))
    ELSE ParseChars(Tail(lex), acc \o Head(lex).s)

ParseString(lex) ==
    IF lex = <<>> THEN NoParse
    ELSE IF Head(lex).k = "string" THEN Parsed(JStr(Head(lex).s), Tail(lex))
    ELSE IF Head(lex).k = "quote" THEN ParseChars(Tail(lex), "")
    ELSE NoParse

RECURSIVE ParseValue(_)
RECURSIVE ParseMembers(_, _)
RECURSIVE ParseElements(_, _)
ParseValue(lex) ==
    IF lex = <<>> THEN NoParse
    ELSE LET h == Head(lex)
         IN  CASE h.k \in {"string", "quote"} -> ParseString(lex)
               [] h = Punct("{") ->
                     IF Len(lex) > 1 /\ lex[2] = Punct("}")
                     THEN Parsed(JObj(EmptyDict), SubSeq(lex, 3, Len(lex)))
                     ELSE ParseMembers(Tail(lex), EmptyDict)
               [] h = Punct("[") ->
                     IF Len(lex) > 1 /\ lex[2] = Punct("]")
                     THEN Parsed(JArr(<<>>), SubSeq(lex, 3, Len(lex)))
                     ELSE ParseElements(Tail(lex), <<>>)
               [] h = Chars("null") -> Parsed(JNull, Tail(lex))
               [] h.k \in {"number", "chars"} /\ IsNumber(h.s) -> Parsed(JNum(NumberOf(h.s)), Tail(lex))
               [] OTHER -> NoParse

\* "key": value, then a comma and more, or the closing brace
ParseMembers(lex, acc) ==
    LET key == ParseString(lex)
    IN  IF ~key.ok \/ key.rest = <<>> \/ Head(key.rest) # Punct(":") THEN NoParse
        ELSE LET val == ParseValue(Tail(key.rest))
                 now == Merge(acc, One(key.val.v, val.val))
             IN  IF ~val.ok \/ val.rest = <<>> THEN NoParse
                 ELSE IF Head(val.rest) = Punct("}") THEN Parsed(JObj(now), Tail(val.rest))
                 ELSE IF Head(val.rest) = Punct(",") THEN ParseMembers(Tail(val.rest), now)
                 ELSE NoParse

ParseElements(lex, acc) ==
    LET val == ParseValue(lex)
        now == Append(acc, val.val)
    IN  IF ~val.ok \/ val.rest = <<>> THEN NoParse
        ELSE IF Head(val.rest) = Punct("]") THEN Parsed(JArr(now), Tail(val.rest))
        ELSE IF Head(val.rest) = Punct(",") THEN ParseElements(Tail(val.rest), now)
        ELSE NoParse

\* json.loads: [err, out]
JsonLoads(lex) ==
    LET r == ParseValue(lex)
    IN  IF r.ok /\ r.rest = <<>> THEN [err |-> NoErr, out |-> r.val]
        ELSE [err |-> "JSONDecodeError", out |-> JNull]

---------------------------------------------------------------------------
\* query and query_by_embedding.

\* the first branch of query: no text, match-all and the filters as given
FilterOnlyBody(filters) ==
    IF Truthy(filters)
    THEN [err |-> NoErr,
          body |-> SetFilter(MatchAllBody,
                             FilterClause(filters.v, CHOOSE s \in KeyOrders(filters.v) : TRUE))]
    ELSE [err |-> NoErr, body |-> MatchAllBody]

\* body["size"] = str(top_k), whatever the template gave
SetSizeIfAbsent(body, top_k) ==
    IF "size" \in DOMAIN body.v THEN body ELSE JObj(Merge(body.v, One("size", JStr(PyStr(top_k)))))
SetSize(body, top_k) == JObj(Merge(body.v, One("size", JStr(PyStr(top_k)))))

\* the substitutions of the custom query: the question, then every filter
\* key with the JSON of its values
Substitutions(query, filters) ==
    LET question == One("question", TextLexemes(query.v))
    IN  IF Truthy(filters)
        THEN Merge(question, [k \in DOMAIN filters.v |-> JsonDumps(filters.v[k])])
        ELSE question

\* the second branch: the custom query template
CustomBody(query, filters, top_k, custom_query) ==
    LET text == Substitute(custom_query.v, Substitutions(query, filters))
        loaded == JsonLoads(text.out)
    IN  IF text.err # NoErr THEN [err |-> text.err, body |-> JNull]
        ELSE IF loaded.err # NoErr THEN [err |-> loaded.err, body |-> JNull]
        ELSE IF loaded.out.t # "obj" THEN [err |-> "TypeError", body |-> JNull]
        ELSE [err |-> NoErr, body |-> SetSize(loaded.out, top_k)]

MultiMatch(c, query) ==
    JObj(One("multi_match", JObj(
        [query |-> query, type |-> JStr("most_fields"),
         fields |-> JArr([i \in DOMAIN c.search_fields |-> JStr(c.search_fields[i])])])))

\* the third branch: keyword retrieval; a filter value that is no list is
\* refused before the body is complete
DefaultBody(c, query, filters, top_k) ==
    LET body == JObj([size |-> JStr(PyStr(top_k)),
                      query |-> JObj(One("bool", JObj(One("should", JArr(<<MultiMatch(c, query)>>)))))])
    IN  IF ~Truthy(filters) THEN [err |-> NoErr, body |-> body]
        ELSE IF \E k \in DOMAIN filters.v : filters.v[k].t # "arr"
             THEN [err |-> "ValueError", body |-> JNull]
        ELSE [err |-> NoErr,
              body |-> SetFilter(body, FilterClause(filters.v, CHOOSE s \in KeyOrders(filters.v) : TRUE))]

QueryBody(c, query, filters, top_k, custom_query) ==
    IF IsNone(query) THEN FilterOnlyBody(filters)
    ELSE IF Truthy(custom_query) THEN CustomBody(query, filters, top_k, custom_query)
    ELSE DefaultBody(c, query, filters, top_k)

WithExcludes(c, body) ==
    IF c.excluded_meta_data # <<>>
    THEN JObj(Merge(body.v, One("_source", JObj(One("excludes",
            JArr([i \in DOMAIN c.excluded_meta_data |-> JStr(c.excluded_meta_data[i])]))))))
    ELSE body

\* what a call that sent `body` to search may return
Searched(e, c, idx, body, score_adjustment) ==
    LET r == EsSearch(e[idx], body)
    IN  {[err |-> SearchError(r.status), body |-> body, requests |-> <<"search">>,
          out |-> IF r.status = 200 THEN ConvertHits(c, hits, score_adjustment) ELSE <<>>]
            : hits \in r.results}

Raised(err) == {[err |-> err, body |-> JNull, requests |-> <<>>, out |-> <<>>]}

\* query: the results it may return, [err, body, requests, out]
QueryResults(e, c, query, filters, top_k, custom_query, index) ==
    LET idx == IF IsNone(index) THEN c.index ELSE index.v
        b == QueryBody(c, query, filters, top_k, custom_query)
    IN  IF b.err # NoErr THEN Raised(b.err)
        ELSE Searched(e, c, idx, WithExcludes(c, b.body), 0)

SimilarityOffset == 1
\* the adjustment of a hit's score: none by default, the offset taken back
\* for a similarity search
NoAdjustment == 0
ScoreAdjustment == -1

SimilarityBody(c, query_emb, top_k) ==
    JObj([size |-> JNum(top_k),
          query |-> JObj(One("script_score", JObj(
              [query |-> JObj(One("match_all", JObj(EmptyDict))),
               script |-> JObj(
                  [source |-> [t |-> "script",
                               v |-> [field |-> c.embedding_field, offset |-> SimilarityOffset]],
                   params |-> JObj(One("query_vector", query_emb))])])))])

\* query_by_embedding: the results it may return
QueryByEmbeddingResults(e, c, query_emb, filters, top_k, index) ==
    LET idx == IF IsNone(index) THEN c.index ELSE index.v
        body == SimilarityBody(c, query_emb, top_k)
        clause == FilterClause(filters.v, CHOOSE s \in KeyOrders(filters.v) : TRUE)
    IN  IF c.embedding_field = "" THEN Raised("RuntimeError")
        ELSE IF Truthy(filters) /\ ~CanSetFilter(body) THEN Raised("KeyError")
        ELSE Searched(e, c, idx,
                      WithExcludes(c, IF Truthy(filters) THEN SetFilter(body, clause) ELSE body),
                      ScoreAdjustment)

---------------------------------------------------------------------------
\* Labels.

\* haystack.database.base.Label and its to_dict
Label(question, answer, document_id) ==
    [question |-> JStr(question), answer |-> JStr(answer), document_id |-> JStr(document_id),
     is_correct_answer |-> JNum(1), is_correct_document |-> JNum(1), origin |-> JStr("gold"),
     offset_start_in_doc |-> JNum(0), no_answer |-> JNum(0), model_id |-> JNull]
LabelToDict(label) == label

LabelAction(label, index) ==
    Merge(Merge(One("_op_type", JStr("create")), One("_index", JStr(index))), LabelToDict(label))

LabelsRefresh == "wait_for"

\* write_labels: [es, err, requests, statuses, index]
WriteLabelsCall(e, labels, index) ==
    LET lazy == ~e[index].exists
        e1 == IF lazy THEN CreateLabelIndexCall(e, index) ELSE [es |-> e, err |-> NoErr]
        actions == [i \in DOMAIN labels |-> LabelAction(labels[i], index)]
        r == EsBulk(e1.es, actions, LabelsRefresh)
        reqs == IF lazy THEN <<"indices.exists", "indices.create">> ELSE <<"indices.exists">>
    IN  IF e1.err # NoErr
        THEN [es |-> e1.es, err |-> e1.err, requests |-> reqs, statuses |-> <<>>, index |-> index]
        ELSE [es |-> r.es, err |-> BulkError(r.statuses), requests |-> Append(reqs, "bulk"),
              statuses |-> r.statuses, index |-> index]

\* get_all_labels: the results it may return, [err, out]
GetAllLabelsResults(e, index, filters) ==
    LET r == GetAllDocumentsInIndex(e, index, filters)
    IN  {[err |-> SearchError(r.status), out |-> [i \in DOMAIN hits |-> hits[i].source]]
            : hits \in r.results}

---------------------------------------------------------------------------
\* update_embeddings.

\* retriever.embed_passages: one vector of the provider's length per passage,
\* in the order of the passages; the vector is a function of the text
Axis(dim, at, sign) == JArr([i \in 1..dim |-> JNum(IF i = at THEN sign ELSE 0)])
EmbedPassages(retriever, passages) ==
    [i \in DOMAIN passages |->
        Axis(retriever.dim, IF passages[i] = JStr("cats") THEN 1 ELSE retriever.dim, retriever.sign)]

\* an action that replaces the record by the embedding alone
UpdateActionIndex(c, doc, emb, index) ==
    Merge(Merge(One("_op_type", JStr("index")), One("_index", JStr(index))),
          Merge(One("_id", doc.id), One(c.embedding_field, emb)))

UpdateAction(c, doc, emb, index) ==
    Merge(Merge(One("_op_type", JStr("update")), One("_index", JStr(index))),
          Merge(One("_id", doc.id), One("doc", JObj(One(c.embedding_field, emb)))))

UpdateRefresh == "false"

\* update_embeddings once the scan has answered with docs:
\* [es, err, requests, named, docs, embeddings, updates], named the
\* dimensions the error message gives, updates the actions of the bulk request
UpdateEmbeddingsWith(e, c, retriever, idx, docs) ==
    LET passages == [i \in DOMAIN docs |-> docs[i].text]
        embeddings == EmbedPassages(retriever, passages)
        updates == [i \in DOMAIN docs |-> UpdateAction(c, docs[i], embeddings[i], idx)]
        r == EsBulk(e, updates, UpdateRefresh)
        stop(err, named) == [es |-> e, err |-> err, requests |-> <<"search">>, named |-> named,
                             docs |-> docs, embeddings |-> embeddings, updates |-> <<>>]
    IN  IF Len(docs) # Len(embeddings) THEN stop("AssertionError", <<>>)
        ELSE IF embeddings = <<>> THEN stop("IndexError", <<>>)
        ELSE IF Len(embeddings[1].v) # c.embedding_dim
             THEN stop("RuntimeError", <<Len(embeddings[1].v), c.embedding_dim>>)
        ELSE [es |-> r.es, err |-> BulkError(r.statuses), requests |-> <<"search", "bulk">>,
              named |-> <<>>, docs |-> docs, embeddings |-> embeddings, updates |-> updates]

\* update_embeddings: the results it may have
UpdateEmbeddingsResults(e, c, retriever, index) ==
    LET idx == IF IsNone(index) THEN c.index ELSE index.v
    IN  IF c.embedding_field = ""
        THEN {[es |-> e, err |-> "RuntimeError", requests |-> <<>>, named |-> <<>>,
               docs |-> <<>>, embeddings |-> <<>>, updates |-> <<>>]}
        ELSE UNION {IF g.err # NoErr
                    THEN {[es |-> e, err |-> g.err, requests |-> <<"search">>, named |-> <<>>,
                           docs |-> <<>>, embeddings |-> <<>>, updates |-> <<>>]}
                    ELSE {UpdateEmbeddingsWith(e, c, retriever, idx, g.out)}
                        : g \in GetAllDocumentsResults(e, c, JStr(idx), JNull)}

---------------------------------------------------------------------------
\* delete_all_documents.

DeleteIgnore == {404}

\* time.sleep(1): the engine's periodic refresh of the index may have run
\* within the pause, or not yet
Sleep(e, index) == {e, EsRefresh(e, {index})}

\* delete_all_documents: the results it may have, [es, err, requests]
DeleteAllDocumentsResults(e, index) ==
    LET r == EsDeleteByQuery(e, index, JObj(One("query", JObj(One("match_all", JObj(EmptyDict))))))
        err == ClientError(r.status, DeleteIgnore)
    IN  IF err # NoErr THEN {[es |-> r.es, err |-> err, requests |-> <<"delete_by_query">>]}
        ELSE {[es |-> after, err |-> NoErr, requests |-> <<"delete_by_query">>]
                : after \in Sleep(r.es, index)}

---------------------------------------------------------------------------
\* The calls, as actions.

IndexOf(index) == IF IsNone(index) THEN cfg.index ELSE index.v

CreateDocumentIndex(index_name) ==
    \E r \in {CreateDocumentIndexCall(es, cfg, index_name)} :
        /\ es' = r.es
        /\ ret' = [op |-> "_create_document_index", index |-> index_name, err |-> r.err,
                   requests |-> <<"indices.create">>, existed |-> es[index_name].exists]
        /\ UNCHANGED <<cfg, written>>

CreateLabelIndex(index_name) ==
    \E r \in {CreateLabelIndexCall(es, index_name)} :
        /\ es' = r.es
        /\ ret' = [op |-> "_create_label_index", index |-> index_name, err |-> r.err,
                   requests |-> <<"indices.create">>, existed |-> es[index_name].exists]
        /\ UNCHANGED <<cfg, written>>

\* the Documents of a batch that the engine accepted, by id
Accepted(documents, statuses) ==
    LET ok == {i \in DOMAIN statuses : statuses[i] < 400}
    IN  [id \in {documents[i].id.v : i \in ok} |->
            documents[CHOOSE i \in ok : documents[i].id.v = id]]

WriteDocuments(documents, index) ==
    \E r \in {WriteDocumentsCall(es, cfg, documents, index)} :
        /\ es' = r.es
        /\ ret' = [op |-> "write_documents", index |-> r.index, documents |-> documents,
                   err |-> r.err, requests |-> r.requests, statuses |-> r.statuses]
        /\ written' = [written EXCEPT ![r.index] = Merge(@, Accepted(documents, r.statuses))]
        /\ UNCHANGED cfg

WriteLabels(labels, index) ==
    \E r \in {WriteLabelsCall(es, labels, index)} :
        /\ Cardinality(DOMAIN es[index].store) + Len(labels) <= MaxLabels
        /\ es' = r.es
        /\ ret' = [op |-> "write_labels", index |-> index, labels |-> labels,
                   err |-> r.err, requests |-> r.requests, statuses |-> r.statuses]
        /\ UNCHANGED <<cfg, written>>

GetDocumentById(id, index) ==
    \E r \in GetDocumentByIdResults(es, cfg, id, index) :
        /\ ret' = [op |-> "get_document_by_id", index |-> IndexOf(index), id |-> id,
                   err |-> r.err, requests |-> <<"search">>, out |-> r.out]
        /\ UNCHANGED <<cfg, es, written>>

GetDocumentCount(index) ==
    \E r \in {GetDocumentCountResult(es, cfg, index)} :
        /\ ret' = [op |-> "get_document_count", index |-> IndexOf(index),
                   err |-> r.err, requests |-> <<"count">>, out |-> r.out]
        /\ UNCHANGED <<cfg, es, written>>

GetAllDocuments(index, filters) ==
    \E r \in GetAllDocumentsResults(es, cfg, index, filters) :
        /\ ret' = [op |-> "get_all_documents", index |-> IndexOf(index), filters |-> filters,
                   err |-> r.err, requests |-> <<"search">>, out |-> r.out]
        /\ UNCHANGED <<cfg, es, written>>

GetAllLabels(index, filters) ==
    \E r \in GetAllLabelsResults(es, index, filters) :
        /\ ret' = [op |-> "get_all_labels", index |-> index, filters |-> filters,
                   err |-> r.err, requests |-> <<"search">>, out |-> r.out]
        /\ UNCHANGED <<cfg, es, written>>

Query(query, filters, top_k, custom_query, index) ==
    \E r \in QueryResults(es, cfg, query, filters, top_k, custom_query, index) :
        /\ ret' = [op |-> "query", index |-> IndexOf(index), query |-> query, filters |-> filters,
                   top_k |-> top_k, custom_query |-> custom_query,
                   err |-> r.err, requests |-> r.requests, body |-> r.body, out |-> r.out]
        /\ UNCHANGED <<cfg, es, written>>

QueryByEmbedding(query_emb, filters, top_k, index) ==
    \E r \in QueryByEmbeddingResults(es, cfg, query_emb, filters, top_k, index) :
        /\ ret' = [op |-> "query_by_embedding", index |-> IndexOf(index), query_emb |-> query_emb,
                   filters |-> filters, top_k |-> top_k,
                   err |-> r.err, requests |-> r.requests, body |-> r.body, out |-> r.out]
        /\ UNCHANGED <<cfg, es, written>>

UpdateEmbeddings(retriever, index) ==
    \E r \in UpdateEmbeddingsResults(es, cfg, retriever, index) :
        /\ es' = r.es
        /\ ret' = [op |-> "update_embeddings", index |-> IndexOf(index), retriever |-> retriever,
                   err |-> r.err, requests |-> r.requests, named |-> r.named,
                   docs |-> r.docs, embeddings |-> r.embeddings, updates |-> r.updates,
                   before |-> es[IndexOf(index)].store, scanned |-> es[IndexOf(index)].visible]
        /\ UNCHANGED <<cfg, written>>

DeleteAllDocuments(index) ==
    \E r \in DeleteAllDocumentsResults(es, index) :
        /\ es' = r.es
        /\ ret' = [op |-> "delete_all_documents", index |-> index, err |-> r.err,
                   requests |-> r.requests, before |-> es[index].store]
        /\ UNCHANGED <<cfg, written>>

\* the engine's periodic refresh of an index
EngineRefresh(index) ==
    /\ es[index].exists
    /\ es[index].visible # es[index].store
    /\ es' = EsRefresh(es, {index})
    /\ UNCHANGED <<cfg, ret, written>>

---------------------------------------------------------------------------
\* Inputs.

Vector(x, y) == JArr(<<JNum(x), JNum(y)>>)

DocA1 == Document("d1", JStr("t1"), EmptyDict, JNull, JNull)
DocA2 == Document("d1", JStr("t2"), One("name", JStr("n1")), JStr("tag"), Vector(1, 0))
DocB == Document("d2", JStr("t1"), One("author", JStr("a1")), JNull, Vector(0, 1))
DocIds == {"d1", "d2"}

DocCats == Document("d1", JStr("cats"), One("year", JNum(2020)), JNull, Vector(1, 0))
DocDogs == Document("d2", JStr("dogs"), One("year", JNum(2021)), JNull, Vector(-1, 0))
DocLynx == Document("d3", JStr("cats"), One("year", JNum(2021)), JNull, Vector(0, 1))

Label1 == Label("q1", "a1", "d1")
Label2 == Label("q2", "a2", "d2")
LabelPool == {Label1, Label2}

\* the non-empty lists of at most MaxBatch elements of pool
Batches(pool) == UNION {[1..n -> pool] : n \in 1..MaxBatch}

YearList == JObj(One("year", JArr(<<JNum(2020)>>)))
YearsList == JObj(One("year", JArr(<<JNum(2020), JNum(2021)>>)))
YearScalar == JObj(One("year", JNum(2020)))
Filters == {JNull, YearList, YearsList, YearScalar}

InitWith(c) ==
    /\ cfg = c
    /\ es = InitEs(c)
    /\ ret = [op |-> "__init__", err |-> NoErr, requests |-> <<"indices.create", "indices.create">>]
    /\ written = [n \in IndexNames |-> EmptyDict]

---------------------------------------------------------------------------
\* Spec: the default configuration; index creation, writes of documents and
\* labels, and every read.

Init == InitWith(DefaultConfig)

Next ==
    \/ \E n \in {"document", "eval_document"} : CreateDocumentIndex(n)
    \/ CreateLabelIndex("label")
    \/ \E d \in {DocA1, DocB} : WriteDocuments(<<d>>, JNull)
    \/ WriteDocuments(<<DocB>>, JStr("eval_document"))
    \/ \E l \in LabelPool : WriteLabels(<<l>>, "label")
    \/ \E id \in DocIds : GetDocumentById(JStr(id), JNull)
    \/ \E index \in {JNull, JStr("eval_document"), JStr("label")} : GetDocumentCount(index)
    \/ GetAllDocuments(JNull, JNull)
    \/ GetAllLabels("label", JNull)
    \/ \E q \in {JNull, JStr("t1")}, k \in 1..MaxTopK : Query(q, JNull, k, JNull, JNull)

Spec == Init /\ [][Next]_vars

---------------------------------------------------------------------------
\* SpecWrite: batches with repeated ids against one index.

NextWrite == \E b \in Batches({DocA1, DocA2, DocB}) : WriteDocuments(b, JNull)

SpecWrite == Init /\ [][NextWrite]_vars

---------------------------------------------------------------------------
\* SpecRoundTrip: a write and a read by id under every naming of the text,
\* name and embedding fields.

Configs ==
    {Config(t, n, e, 2, <<>>) :
        t \in {"text", "content"}, n \in {"name", "title"}, e \in {"embedding", "vec"}}

InitRoundTrip == \E c \in Configs : InitWith(c)

NextRoundTrip ==
    \/ \E b \in Batches({DocA1, DocA2, DocB}) : WriteDocuments(b, JNull)
    \/ \E id \in DocIds : GetDocumentById(JStr(id), JNull)

SpecRoundTrip == InitRoundTrip /\ [][NextRoundTrip]_vars

---------------------------------------------------------------------------
\* SpecQuery: the three built-in shapes of query, and query_by_embedding,
\* with and without filters.

QueryPool == {DocCats, DocDogs, DocLynx}

NextQuery ==
    \/ \E d \in QueryPool : WriteDocuments(<<d>>, JNull)
    \/ \E q \in {JNull, JStr("cats")}, f \in Filters, k \in 1..MaxTopK : Query(q, f, k, JNull, JNull)
    \/ \E f \in Filters, k \in 1..MaxTopK : QueryByEmbedding(Vector(1, 0), f, k, JNull)

SpecQuery == Init /\ [][NextQuery]_vars

---------------------------------------------------------------------------
\* SpecTemplate: query with a custom query template.

Template(tokens) == [t |-> "template", v |-> tokens]
P(s) == Lit(Punct(s))
K(s) == Lit(StringLit(s))
Q == Lit(Quote)

\* {"query": {"match": {"text": "${question}"}}}
TemplateMatch ==
    Template(<<P("{"), K("query"), P(":"), P("{"), K("match"), P(":"), P("{"), K("text"), P(":"),
               Q, Braced("question"), Q, P("}"), P("}"), P("}")>>)

\* {"size": 7, "query": {"bool": {"must": {"match": {"text": "${question}"}},
\*                                "filter": {"terms": {"year": ${year}}}}}}
TemplateSized ==
    Template(<<P("{"), K("size"), P(":"), Lit(NumberLit("7")), P(","), K("query"), P(":"), P("{"),
               K("bool"), P(":"), P("{"), K("must"), P(":"), P("{"), K("match"), P(":"), P("{"),
               K("text"), P(":"), Q, Braced("question"), Q, P("}"), P("}"), P(","),
               K("filter"), P(":"), P("{"), K("terms"), P(":"), P("{"), K("year"), P(":"),
               Braced("year"), P("}"), P("}"), P("}"), P("}"), P("}")>>)

\* {"query": {"bool": {"should": [{"match": {"text": "${question}"}},
\*                                {"match": {"name": "$question"}}]}}}
TemplateTwice ==
    Template(<<P("{"), K("query"), P(":"), P("{"), K("bool"), P(":"), P("{"), K("should"), P(":"),
               P("["), P("{"), K("match"), P(":"), P("{"), K("text"), P(":"), Q, Braced("question"), Q,
               P("}"), P("}"), P(","), P("{"), K("match"), P(":"), P("{"), K("name"), P(":"),
               Q, Named("question"), Q, P("}"), P("}"), P("]"), P("}"), P("}"), P("}")>>)

Templates == {TemplateMatch, TemplateSized, TemplateTwice}
Questions == {JStr("cats"), JStr("say \"hi\"")}

NextTemplate ==
    \/ \E d \in QueryPool : WriteDocuments(<<d>>, JNull)
    \/ \E q \in Questions, f \in Filters, k \in 1..MaxTopK, t \in Templates :
            Query(q, f, k, t, JNull)

SpecTemplate == Init /\ [][NextTemplate]_vars

---------------------------------------------------------------------------
\* SpecEmbed: update_embeddings with providers of the configured and of
\* another vector length.

Retrievers == {[dim |-> d, sign |-> sg] : d \in {1, 2}, sg \in {1, -1}}

NextEmbed ==
    \/ \E d \in QueryPool : WriteDocuments(<<d>>, JNull)
    \/ \E r \in Retrievers : UpdateEmbeddings(r, JNull)
    \/ EngineRefresh("document")
    \/ \E id \in {"d1", "d2", "d3"} : GetDocumentById(JStr(id), JNull)

SpecEmbed == Init /\ [][NextEmbed]_vars

---------------------------------------------------------------------------
\* SpecDelete: delete_all_documents between writes and reads.

NextDelete ==
    \/ \E d \in QueryPool : WriteDocuments(<<d>>, JNull)
    \/ \E index \in {"document", "eval_document"} : DeleteAllDocuments(index)
    \/ EngineRefresh("document")
    \/ \E index \in {JNull, JStr("eval_document")} : GetDocumentCount(index)
    \/ \E id \in {"d1", "d2", "d3"} : GetDocumentById(JStr(id), JNull)
    \/ GetAllDocuments(JNull, JNull)
    \/ \E k \in 1..MaxTopK : Query(JNull, JNull, k, JNull, JNull)

SpecDelete == Init /\ [][NextDelete]_vars

---------------------------------------------------------------------------
\* Properties.

AllLists(filters) == \A k \in DOMAIN filters.v : filters.v[k].t = "arr"
Sent(r) == "search" \in Range(r.requests)
Found(doc) == "id" \in DOMAIN doc
Ids(docs) == {docs[i].id.v : i \in DOMAIN docs}

\* C1: query without a text, query in the default keyword shape and
\* query_by_embedding refuse a filter with a value that is no list with an
\* invalid-filter-format error before any search is sent, and succeed when
\* every value is a list.
C1_FilterFormat ==
    (/\ ret.op \in {"query", "query_by_embedding"}
     /\ Truthy(ret.filters)
     /\ ret.op = "query" => ~Truthy(ret.custom_query))
    => IF AllLists(ret.filters) THEN ret.err = NoErr
       ELSE ret.err = "ValueError" /\ ~Sent(ret)

\* C2: a write_documents call with a document whose id an earlier call had
\* stored has that record rejected, and the stored document is retrieved by
\* its id as before, with the first call's text, meta, tags and embedding.
C2_SecondWriteRejected ==
    [][ret'.op = "write_documents" =>
        \A i \in DOMAIN ret'.documents :
            LET id == ret'.documents[i].id.v
                idx == ret'.index
                first == written[idx][id]
                after == GetDocumentByIdResults(es', cfg, JStr(id), JStr(idx))
            IN  id \in DOMAIN written[idx] =>
                    /\ ret'.statuses[i] = 409
                    /\ after = GetDocumentByIdResults(es, cfg, JStr(id), JStr(idx))
                    /\ \A r \in after :
                        /\ Found(r.out)
                        /\ r.out.text = first.text
                        /\ r.out.tags = first.tags
                        /\ r.out.embedding = first.embedding
                        /\ r.out.meta.v = Merge(One("name", JNull), first.meta.v)]_vars

C2_Witness ==
    /\ ret.op = "write_documents"
    /\ ret.statuses = <<409>>
    /\ written[ret.index][ret.documents[1].id.v].text # ret.documents[1].text

\* C3: under every naming of the text, name and embedding fields, a written
\* Document read back by its id has the written text, tags and embedding,
\* and the written meta (as rebuilt from the flat record: its name is None
\* when none was written).
C3_RoundTrip ==
    (ret.op = "get_document_by_id" /\ ret.err = NoErr /\ ret.id.v \in DOMAIN written[ret.index])
    => LET w == written[ret.index][ret.id.v]
       IN  /\ Found(ret.out)
           /\ ret.out.text = w.text
           /\ ret.out.tags = w.tags
           /\ ret.out.embedding = w.embedding
           /\ ret.out.meta.v = Merge(One("name", JNull), w.meta.v)

\* C4: _create_document_index and _create_label_index on a name whose index
\* exists raise nothing and leave every index, its mapping and its records,
\* as it was.
C4_CreateIdempotent ==
    [][(/\ ret'.op \in {"_create_document_index", "_create_label_index"}
        /\ es[ret'.index].exists)
       => ret'.err = NoErr /\ es' = es]_vars

C4_Witness ==
    /\ ret.op = "_create_document_index"
    /\ ret.existed
    /\ ret.err = NoErr
    /\ DOMAIN es[ret.index].store # {}

Match(field, text) == JObj(One("match", JObj(One(field, text))))
TemplateMeaning(template, query, filters) ==
    CASE template = TemplateMatch -> One("query", Match("text", query))
      [] template = TemplateSized ->
            One("query", JObj(One("bool", JObj(
                [must |-> Match("text", query),
                 filter |-> JObj(One("terms", JObj(One("year", filters.v["year"]))))]))))
      [] template = TemplateTwice ->
            One("query", JObj(One("bool", JObj(One("should",
                JArr(<<Match("text", query), Match("name", query)>>))))))

\* C6: the body a query with a text and a custom query template sends is
\* the template with the question and each filter's values in the places of
\* their placeholders, read as a query body, and its size is top_k whether
\* or not the template gave a size.
C6_TemplateBody ==
    (ret.op = "query" /\ Truthy(ret.query) /\ Truthy(ret.custom_query) /\ Sent(ret))
    => /\ HasKey(ret.body, "size")
       /\ ParseSize(ret.body.v["size"]) = ret.top_k
       /\ Without(ret.body.v, {"size"}) = TemplateMeaning(ret.custom_query, ret.query, ret.filters)

C6_Witness ==
    /\ ret.op = "query"
    /\ ret.custom_query = TemplateSized
    /\ ret.err = NoErr
    /\ ParseSize(ret.body.v["size"]) = ret.top_k
    /\ ret.body.v["query"].v["bool"].v["filter"].v["terms"].v["year"] = ret.filters.v["year"]
    /\ ret.body.v["query"].v["bool"].v["must"] = Match("text", ret.query)

Cosine(doc) == CosineSimilarity(Vec(ret.query_emb), Vec(doc.embedding))

\* C7 as amended: every hit of query_by_embedding whose engine score is not
\* zero has the cosine similarity of its embedding and the query vector as
\* query_score (1 for an embedding equal to the query vector); a hit whose
\* engine score is zero (similarity -1) has no query_score.
C7_ScoreUnlessZero ==
    (ret.op = "query_by_embedding" /\ ret.err = NoErr)
    => \A i \in DOMAIN ret.out :
          ret.out[i].query_score =
              IF Cosine(ret.out[i]) = 0 - 1 THEN JNull ELSE JNum(Cosine(ret.out[i]))

\* C7 as stated: every hit's query_score is the cosine similarity, over the
\* whole range from -1 to 1.
C7_ScoreIsCosine ==
    (ret.op = "query_by_embedding" /\ ret.err = NoErr)
    => \A i \in DOMAIN ret.out : ret.out[i].query_score = JNum(Cosine(ret.out[i]))

C7_Witness ==
    /\ ret.op = "query_by_embedding"
    /\ ret.err = NoErr
    /\ \E i \in DOMAIN ret.out :
          ret.out[i].embedding = ret.query_emb /\ ret.out[i].query_score = JNum(1)
    /\ \E i \in DOMAIN ret.out : Cosine(ret.out[i]) = 0 - 1 /\ ret.out[i].query_score = JNull

\* C8: query_by_embedding with a filter whose values are all lists raises
\* nothing and returns only documents whose value for every filter key is
\* among the key's values.
C8_EmbeddingFilter ==
    (ret.op = "query_by_embedding" /\ Truthy(ret.filters) /\ AllLists(ret.filters))
    => /\ ret.err = NoErr
       /\ \A i \in DOMAIN ret.out : \A k \in DOMAIN ret.filters.v :
            /\ k \in DOMAIN ret.out[i].meta.v
            /\ ret.out[i].meta.v[k] \in Range(ret.filters.v[k].v)

\* the records a write had acknowledged: an index holds no others
Acknowledged(index) == DOMAIN es[index].store
Matching(index, text) ==
    {id \in Acknowledged(index) : DictGet(es[index].store[id], "text") = text}

\* C9: every read sees every record that a write_documents or write_labels
\* call before it had acknowledged.
C9_ReadsSeeWrites ==
    /\ ret.op = "get_document_count" /\ ret.err = NoErr
        => ret.out >= Cardinality(Acknowledged(ret.index))
    /\ ret.op = "get_document_by_id" /\ ret.id.v \in Acknowledged(ret.index)
        => Found(ret.out) /\ ret.out.id = ret.id
    /\ ret.op = "get_all_documents" => Acknowledged(ret.index) \subseteq Ids(ret.out)
    /\ ret.op = "get_all_labels" => Len(ret.out) >= Cardinality(Acknowledged(ret.index))
    /\ ret.op = "query" /\ IsNone(ret.query)
        => Len(ret.out) >= Min(DefaultSize, Cardinality(Acknowledged(ret.index)))
    /\ ret.op = "query" /\ ~IsNone(ret.query)
        => Len(ret.out) >= Min(ret.top_k, Cardinality(Matching(ret.index, ret.query)))

C9_Witness ==
    /\ ret.op = "get_all_documents"
    /\ Cardinality(Acknowledged(ret.index)) = 2
    /\ Ids(ret.out) = Acknowledged(ret.index)

C11_UpdateFrame ==
    (ret.op = "update_embeddings" /\ ret.err = NoErr)
    => LET before == ret.before
           after == es[ret.index].store
           field == cfg.embedding_field
       IN  /\ ret.requests = <<"search", "bulk">>
           /\ Ids(ret.docs) = DOMAIN ret.scanned
           /\ Len(ret.docs) = Cardinality(DOMAIN ret.scanned)
           /\ Len(ret.embeddings) = Len(ret.docs)
           /\ DOMAIN ret.updates = DOMAIN ret.docs
           /\ \A i \in DOMAIN ret.docs :
                /\ ret.updates[i]["_op_type"] = JStr("update")
                /\ ret.updates[i]["_id"] = ret.docs[i].id
                /\ DOMAIN ret.updates[i] = MetaKeys \cup {"doc"}
                /\ DOMAIN ret.updates[i]["doc"].v = {field}
                /\ after[ret.docs[i].id.v][field] = ret.embeddings[i]
           /\ DOMAIN after = DOMAIN before
           /\ \A id \in DOMAIN before :
                Without(after[id], {field}) = Without(before[id], {field})

C11_Witness ==
    /\ ret.op = "update_embeddings"
    /\ ret.err = NoErr
    /\ Len(ret.docs) = 2
    /\ ret.embeddings[1] # ret.embeddings[2]
    /\ \E id \in DOMAIN ret.before :
          es[ret.index].store[id][cfg.embedding_field] # ret.before[id][cfg.embedding_field]

\* C12: a read of the index that follows a delete_all_documents call which
\* returned, with no write in between, observes none of the documents the
\* index held before the call, and get_document_count returns 0.
C12_DeletedForReads ==
    [][(/\ ret.op = "delete_all_documents"
        /\ ret.err = NoErr
        /\ ret'.index = ret.index
        /\ ret'.op \in {"get_document_count", "get_document_by_id", "get_all_documents", "query"})
       => CASE ret'.op = "get_document_count" -> ret'.err = NoErr => ret'.out = 0
            [] ret'.op = "get_document_by_id" -> ~Found(ret'.out)
            [] OTHER -> Ids(ret'.out) \cap DOMAIN ret.before = {}]_vars

====
